---- MODULE Spec2Model ----
(***************************************************************************)
(* Model of the chat backend: the FastAPI gateway (backend/main.py), the   *)
(* completion client (backend/openai_service.py) and the trace recorder    *)
(* (backend/arize_service.py).                                             *)
(*                                                                         *)
(* Every POST /chat request runs as its own coroutine.  The only           *)
(* suspension point is the await on the provider call, so a request takes  *)
(* two atomic steps: ChatReceive (body validation, the list comprehension, *)
(* uuid generation, the provider call being issued) and ProviderResponds   *)
(* (everything the coroutine does once the await completes).               *)
(*                                                                         *)
(* Python values that may be None are records [tag, val]; a JSON field     *)
(* that is missing from the body has tag "absent".                         *)
(***************************************************************************)
EXTENDS Integers, Sequences, FiniteSets, TLC

\* Number of POST /chat requests the model lets arrive.
MaxRequests == 2

Requests == 1..MaxRequests

None == [tag |-> "None", val |-> ""]
Absent == [tag |-> "absent", val |-> ""]
Str(s) == [tag |-> "str", val |-> s]

\* main.py:30, openai_service.py:13 -- the default model identifier.
DEFAULT_MODEL == "gpt-3.5-turbo"

\* str(x) of a Python value that is a str or None.
PyStr(v) == IF v.tag = "None" THEN "None" ELSE v.val

(***************************************************************************)
(* Request bodies.                                                         *)
(***************************************************************************)
JsonMsg(r, c) == [role |-> Str(r), content |-> Str(c)]
JsonBody(present, items, model) ==
    [messages |-> [present |-> present, items |-> items], model |-> model]

Hi == <<JsonMsg("user", "Hi")>>

Bodies ==
    { JsonBody(TRUE, Hi, Absent),
      JsonBody(TRUE, Hi, None),
      JsonBody(TRUE, Hi, Str("")),
      JsonBody(TRUE, <<JsonMsg("system", "Be brief"), JsonMsg("user", "Hi"),
                       JsonMsg("user", "Hi")>>, Str("gpt-4")),
      JsonBody(TRUE, <<>>, Str("gpt-4")),
      JsonBody(TRUE, <<JsonMsg("wizard", "Hi")>>, Str("gpt-4")),
      JsonBody(FALSE, <<>>, Absent),
      JsonBody(TRUE, <<[role |-> None, content |-> Str("Hi")]>>, Absent) }

\* The role values the specification's data model enumerates.
ValidRoles == {"user", "assistant", "system"}

(***************************************************************************)
(* What the awaited provider call can produce.                             *)
(***************************************************************************)
Outcome(kind, err, hasChoices, choices) ==
    [kind |-> kind, err |-> err, hasChoices |-> hasChoices, choices |-> choices]

ProviderOutcomes ==
    { Outcome("raise", "Rate limit reached", FALSE, <<>>),
      Outcome("return", "", FALSE, <<>>),
      Outcome("return", "", TRUE, <<>>),
      Outcome("return", "", TRUE, <<None>>),
      Outcome("return", "", TRUE, <<Str("Hello!")>>),
      Outcome("return", "", TRUE, <<Str("Bye"), Str("Hello!")>>) }

\* What can go wrong inside the trace recorder's try block.
Faults == {"none", "dumps", "trace"}

VARIABLES
    sdkInstalled,   \* arize_service.py:6-14, did the SDK import succeed
    uuidCount,      \* number of uuid4() values drawn so far
    pc,             \* per request: "idle", "awaiting", "done"
    body,           \* per request: the JSON body it arrived with
    frame,          \* per request: locals of get_chat_completion
    providerCalls,  \* per request: kwargs the provider received
    providerReply,  \* per request: what the provider call produced
    traceBackend,   \* spans forwarded to the tracing backend
    http,           \* per request: the HTTP response
    log             \* per request: the steps taken, in order

vars == <<sdkInstalled, uuidCount, pc, body, frame, providerCalls,
          providerReply, traceBackend, http, log>>

NoBody == JsonBody(FALSE, <<>>, Absent)
NoFrame == [trace_id |-> "", model |-> None, messages |-> <<>>]
NoCall == [called |-> FALSE, model |-> None, messages |-> <<>>]
NoReply == Outcome("pending", "", FALSE, <<>>)
NoMessage == [role |-> "", content |-> ""]
NoHttp == [status |-> 0, message |-> NoMessage, trace_id |-> "", detail |-> ""]

(***************************************************************************)
(* backend/main.py                                                         *)
(***************************************************************************)
\* Pydantic validation of the body against ChatRequest / Message.
ValidChatRequest(b) ==
    /\ b.messages.present
    /\ \A k \in 1..Len(b.messages.items) :
          /\ b.messages.items[k].role.tag = "str"
          /\ b.messages.items[k].content.tag = "str"
    /\ b.model.tag \in {"absent", "None", "str"}

\* The ChatRequest object pydantic builds from a valid body.
ChatRequest(b) ==
    [messages |-> [k \in 1..Len(b.messages.items) |->
                      [role |-> b.messages.items[k].role.val,
                       content |-> b.messages.items[k].content.val]],
     model |-> IF b.model.tag = "absent" THEN Str(DEFAULT_MODEL) ELSE b.model]

\* A comprehension that walks the messages from the last to the first.
ToDicts_reversed(msgs) ==
    [k \in 1..Len(msgs) |-> [role |-> msgs[Len(msgs) + 1 - k].role,
                             content |-> msgs[Len(msgs) + 1 - k].content]]

\* main.py:44, the list comprehension over request.messages.
ToDicts(msgs) ==
    [k \in 1..Len(msgs) |-> [role |-> msgs[k].role, content |-> msgs[k].content]]

HTTP422 == [status |-> 422, message |-> NoMessage, trace_id |-> "",
            detail |-> "validation error"]

(***************************************************************************)
(* backend/arize_service.py                                                *)
(***************************************************************************)
Tok(k, v) == [k |-> k, v |-> v]

\* One dict of the prompt as json.dumps(prompt, indent=2) writes it.
DumpDict(d) ==
    << Tok("ws", "\n  "), Tok("punct", "{"),
       Tok("ws", "\n    "), Tok("string", "role"), Tok("punct", ": "),
       Tok("string", d.role), Tok("punct", ","),
       Tok("ws", "\n    "), Tok("string", "content"), Tok("punct", ": "),
       Tok("string", d.content),
       Tok("ws", "\n  "), Tok("punct", "}") >>

RECURSIVE DumpItems(_, _)
DumpItems(p, k) ==
    IF k > Len(p) THEN <<>>
    ELSE DumpDict(p[k])
         \o (IF k < Len(p) THEN <<Tok("punct", ",")>> ELSE <<>>)
         \o DumpItems(p, k + 1)

\* json.dumps(prompt, indent=2) as a token sequence.
json_dumps(prompt) ==
    IF Len(prompt) = 0 THEN <<Tok("punct", "[]")>>
    ELSE <<Tok("punct", "[")>> \o DumpItems(prompt, 1)
         \o <<Tok("ws", "\n"), Tok("punct", "]")>>

Span(trace_id, model, prompt, response) ==
    [name |-> "LLM Call - " \o PyStr(model),
     inputs |-> [prompt |-> json_dumps(prompt), model |-> model],
     outputs |-> [response |-> response],
     span_id |-> trace_id]

\* trace(...): the SDK's function when the import succeeded, else the dummy
\* of arize_service.py:12-14, which forwards nothing and never raises.
trace(sdk, fault, span) ==
    IF ~sdk THEN [raised |-> FALSE, spans |-> {}]
    ELSE IF fault = "trace" THEN [raised |-> TRUE, spans |-> {}]
    ELSE [raised |-> FALSE, spans |-> {span}]

\* A recorder whose except clause is missing: failures reach the caller.
trace_llm_call_propagating(sdk, fault, trace_id, model, prompt, response) ==
    IF fault = "dumps"
    THEN [raised |-> TRUE, spans |-> {}, log |-> <<"trace", "trace_error">>]
    ELSE LET t == trace(sdk, fault, Span(trace_id, model, prompt, response))
         IN  [raised |-> t.raised, spans |-> t.spans,
              log |-> IF t.raised THEN <<"trace", "trace_error">>
                      ELSE <<"trace">>]

\* trace_llm_call: the try block and its except Exception clause.
trace_llm_call(sdk, fault, trace_id, model, prompt, response) ==
    IF fault = "dumps"
    THEN [raised |-> FALSE, spans |-> {}, log |-> <<"trace", "trace_error">>]
    ELSE LET t == trace(sdk, fault, Span(trace_id, model, prompt, response))
         IN  [raised |-> FALSE, spans |-> t.spans,
              log |-> IF t.raised THEN <<"trace", "trace_error">>
                      ELSE <<"trace">>]

(***************************************************************************)
(* backend/openai_service.py                                               *)
(***************************************************************************)
\* A generator that hands out the same identifier every time.
uuid4_fixed(n) == "uuid-" \o ToString(1)

\* str(uuid.uuid4()): the n-th identifier drawn; distinct draws differ.
uuid4(n) == "uuid-" \o ToString(n)

Exc(type, msg) == [type |-> type, msg |-> msg]
NoExc == Exc("", "")

\* str(e)
ExcStr(e) == e.msg

\* Reads the last completion instead of the first.
FirstChoiceContent_last(choices) == choices[Len(choices)]

\* response.choices[0].message.content
FirstChoiceContent(choices) == choices[1]

Raised(e, spans, lg) ==
    [raised |-> TRUE, exc |-> e, content |-> None, trace_id |-> "",
     spans |-> spans, log |-> lg]

\* A client that also records a trace from its except clause.
get_chat_completion_resume_traces_errors(sdk, fault, f, o) ==
    IF o.kind = "raise" \/ ~o.hasChoices \/ Len(o.choices) = 0
    THEN LET t == trace_llm_call(sdk, fault, f.trace_id, f.model, f.messages,
                                 Str(o.err))
         IN  Raised(Exc("Exception", o.err), t.spans,
                    <<"provider_raise">> \o t.log)
    ELSE LET content == FirstChoiceContent(o.choices)
             t == trace_llm_call(sdk, fault, f.trace_id, f.model, f.messages,
                                 content)
         IN  [raised |-> FALSE, exc |-> NoExc, content |-> content,
              trace_id |-> f.trace_id, spans |-> t.spans,
              log |-> <<"provider_return">> \o t.log]

\* get_chat_completion from the point where the awaited provider call
\* completes with outcome o; f holds the locals set before the await.
get_chat_completion_resume(sdk, fault, f, o) ==
    IF o.kind = "raise"
    THEN Raised(Exc("OpenAIError", o.err), {}, <<"provider_raise">>)
    ELSE IF ~o.hasChoices
    THEN Raised(Exc("AttributeError", "choices"), {}, <<"provider_return">>)
    ELSE IF Len(o.choices) = 0
    THEN Raised(Exc("IndexError", "list index out of range"), {},
                <<"provider_return">>)
    ELSE LET content == FirstChoiceContent(o.choices)
             t == trace_llm_call(sdk, fault, f.trace_id, f.model, f.messages,
                                 content)
         IN  IF t.raised
             THEN Raised(Exc("Exception", "trace failed"), t.spans,
                         <<"provider_return">> \o t.log)
             ELSE [raised |-> FALSE, exc |-> NoExc, content |-> content,
                   trace_id |-> f.trace_id, spans |-> t.spans,
                   log |-> <<"provider_return">> \o t.log]

(***************************************************************************)
(* backend/main.py, the handler                                            *)
(***************************************************************************)
HTTP500(detail) == [status |-> 500, message |-> NoMessage, trace_id |-> "",
                    detail |-> detail]

\* A handler that hides the cause of a failure.
chat_resume_generic(r) ==
    IF r.raised \/ r.content.tag # "str"
    THEN HTTP500("Internal Server Error")
    ELSE [status |-> 200,
          message |-> [role |-> "assistant", content |-> r.content.val],
          trace_id |-> r.trace_id, detail |-> ""]

\* chat from the point where get_chat_completion returns or raises (r).
\* Message(content=None) fails pydantic validation inside the try block.
chat_resume(r) ==
    IF r.raised THEN HTTP500(ExcStr(r.exc))
    ELSE IF r.content.tag # "str"
    THEN HTTP500(ExcStr(Exc("ValidationError",
                            "1 validation error for Message")))
    ELSE [status |-> 200,
          message |-> [role |-> "assistant", content |-> r.content.val],
          trace_id |-> r.trace_id, detail |-> ""]

(***************************************************************************)
(* The state machine                                                       *)
(***************************************************************************)
Init ==
    /\ sdkInstalled \in BOOLEAN
    /\ uuidCount = 0
    /\ pc = [i \in Requests |-> "idle"]
    /\ body = [i \in Requests |-> NoBody]
    /\ frame = [i \in Requests |-> NoFrame]
    /\ providerCalls = [i \in Requests |-> NoCall]
    /\ providerReply = [i \in Requests |-> NoReply]
    /\ traceBackend = {}
    /\ http = [i \in Requests |-> NoHttp]
    /\ log = [i \in Requests |-> <<>>]

\* POST /chat arrives: validation, then chat and get_chat_completion up to
\* the await on the provider call.
ChatReceive(i) ==
    /\ pc[i] = "idle"
    /\ \A j \in Requests : j < i => pc[j] # "idle"
    /\ \E b \in Bodies :
         /\ body' = [body EXCEPT ![i] = b]
         /\ IF ~ValidChatRequest(b)
            THEN /\ pc' = [pc EXCEPT ![i] = "done"]
                 /\ http' = [http EXCEPT ![i] = HTTP422]
                 /\ log' = [log EXCEPT ![i] = <<"validate", "respond">>]
                 /\ UNCHANGED <<uuidCount, frame, providerCalls>>
            ELSE LET request == ChatRequest(b)
                     messages == ToDicts(request.messages)
                     trace_id == uuid4(uuidCount + 1)
                 IN  /\ uuidCount' = uuidCount + 1
                     /\ frame' = [frame EXCEPT ![i] =
                                     [trace_id |-> trace_id,
                                      model |-> request.model,
                                      messages |-> messages]]
                     /\ providerCalls' = [providerCalls EXCEPT ![i] =
                                     [called |-> TRUE,
                                      model |-> request.model,
                                      messages |-> messages]]
                     /\ pc' = [pc EXCEPT ![i] = "awaiting"]
                     /\ log' = [log EXCEPT ![i] =
                                     <<"validate", "provider_call">>]
                     /\ UNCHANGED http
    /\ UNCHANGED <<sdkInstalled, providerReply, traceBackend>>

\* Every coroutine reads one module-level trace_id instead of its own local.
ProviderResponds_shared(i) ==
    /\ pc[i] = "awaiting"
    /\ \E o \in ProviderOutcomes, fault \in Faults :
         LET f == [frame[i] EXCEPT !.trace_id = uuid4(uuidCount)]
             r == get_chat_completion_resume(sdkInstalled, fault, f, o)
         IN  /\ providerReply' = [providerReply EXCEPT ![i] = o]
             /\ traceBackend' = traceBackend \cup r.spans
             /\ http' = [http EXCEPT ![i] = chat_resume(r)]
             /\ log' = [log EXCEPT ![i] = @ \o r.log \o <<"respond">>]
             /\ pc' = [pc EXCEPT ![i] = "done"]
    /\ UNCHANGED <<sdkInstalled, uuidCount, body, frame, providerCalls>>

\* The awaited provider call of request i completes; the coroutine runs to
\* its HTTP response without suspending again.
ProviderResponds(i) ==
    /\ pc[i] = "awaiting"
    /\ \E o \in ProviderOutcomes, fault \in Faults :
         LET r == get_chat_completion_resume(sdkInstalled, fault, frame[i], o)
         IN  /\ providerReply' = [providerReply EXCEPT ![i] = o]
             /\ traceBackend' = traceBackend \cup r.spans
             /\ http' = [http EXCEPT ![i] = chat_resume(r)]
             /\ log' = [log EXCEPT ![i] = @ \o r.log \o <<"respond">>]
             /\ pc' = [pc EXCEPT ![i] = "done"]
    /\ UNCHANGED <<sdkInstalled, uuidCount, body, frame, providerCalls>>

Next ==
    \/ \E i \in Requests : ChatReceive(i)
    \/ \E i \in Requests : ProviderResponds(i)

Spec == Init /\ [][Next]_vars

TypeOK ==
    /\ sdkInstalled \in BOOLEAN
    /\ uuidCount \in 0..MaxRequests
    /\ \A i \in Requests : pc[i] \in {"idle", "awaiting", "done"}

(***************************************************************************)
(* Vocabulary of the properties                                            *)
(***************************************************************************)
Done(i) == pc[i] = "done"

\* The provider call of request i returned a first completion with text.
ProviderSucceeded(i) ==
    /\ providerReply[i].kind = "return"
    /\ providerReply[i].hasChoices
    /\ Len(providerReply[i].choices) > 0
    /\ providerReply[i].choices[1].tag = "str"

\* The provider raised, or its response is malformed or has no completion.
ProviderFailed(i) ==
    \/ providerReply[i].kind = "raise"
    \/ /\ providerReply[i].kind = "return"
       /\ ~providerReply[i].hasChoices \/ Len(providerReply[i].choices) = 0

\* Text representation of the failure behind a failed provider call.
FailureText(o) ==
    IF o.kind = "raise" THEN o.err
    ELSE IF ~o.hasChoices THEN "choices"
    ELSE "list index out of range"

Has(s, e) == \E k \in 1..Len(s) : s[k] = e
Count(s, e) == Cardinality({k \in 1..Len(s) : s[k] = e})
\* Every occurrence of b in s has an occurrence of a before it.
Precedes(s, a, b) ==
    \A q \in 1..Len(s) : s[q] = b => \E p \in 1..(q - 1) : s[p] = a

\* The messages of the body of request i, as role/content pairs.
BodyMessages(i) ==
    [k \in 1..Len(body[i].messages.items) |->
        [role |-> body[i].messages.items[k].role.val,
         content |-> body[i].messages.items[k].content.val]]

\* Reads a serialized prompt back: the string tokens come in groups of four,
\* "role", its value, "content", its value.
json_loads(toks) ==
    LET s == SelectSeq(toks, LAMBDA t : t.k = "string")
    IN  [k \in 1..(Len(s) \div 4) |->
            [role |-> s[4 * k - 2].v, content |-> s[4 * k].v]]

SpansOf(i) == {sp \in traceBackend : sp.span_id = frame[i].trace_id}

EmptyModelField(i) ==
    body[i].model.tag \in {"absent", "None"} \/ body[i].model = Str("")

(***************************************************************************)
(* C1: whenever the provider call of a request succeeded with a text       *)
(* completion, the request is answered 200 with that text, whether the     *)
(* tracing SDK is absent, serialization raised or the backend call raised. *)
(***************************************************************************)
C1_TraceNeverDowngrades ==
    \A i \in Requests :
        Done(i) /\ ProviderSucceeded(i) =>
            /\ http[i].status = 200
            /\ http[i].message.content = providerReply[i].choices[1].val

C1_Witness ==
    \E i \in Requests :
        /\ Done(i) /\ ProviderSucceeded(i)
        /\ Has(log[i], "trace_error")
        /\ http[i].status = 200

(***************************************************************************)
(* C2: a request whose provider call failed is answered 500 with the text  *)
(* of the failure as detail, and a request whose provider call succeeds    *)
(* after earlier requests all failed is still answered 200.                *)
(***************************************************************************)
C2_ProviderFailureIs500 ==
    \A i \in Requests :
        /\ Done(i) /\ ProviderFailed(i) =>
              /\ http[i].status = 500
              /\ http[i].detail = FailureText(providerReply[i])
        /\ ( /\ Done(i) /\ ProviderSucceeded(i)
             /\ \A j \in 1..(i - 1) : Done(j) /\ ProviderFailed(j) )
           => http[i].status = 200

C2_Witness ==
    /\ Done(1) /\ ProviderFailed(1) /\ http[1].status = 500
    /\ http[1].detail = "Rate limit reached"
    /\ Done(2) /\ ProviderSucceeded(2) /\ http[2].status = 200

(***************************************************************************)
(* C3: when the model field of the body is absent, null or the empty       *)
(* string, the provider receives the default model identifier.             *)
(***************************************************************************)
C3_EmptyModelGetsDefault ==
    \A i \in Requests :
        providerCalls[i].called /\ EmptyModelField(i) =>
            providerCalls[i].model = Str(DEFAULT_MODEL)

(***************************************************************************)
(* C4: a request with an empty conversation or with a message whose role   *)
(* is not a valid role never reaches the provider and is answered 4xx.     *)
(***************************************************************************)
InvalidConversation(i) ==
    /\ pc[i] # "idle"
    /\ body[i].messages.present
    /\ \/ Len(body[i].messages.items) = 0
       \/ \E k \in 1..Len(body[i].messages.items) :
             /\ body[i].messages.items[k].role.tag = "str"
             /\ body[i].messages.items[k].role.val \notin ValidRoles

C4_InvalidConversationRejected ==
    \A i \in Requests :
        InvalidConversation(i) =>
            /\ ~providerCalls[i].called
            /\ Done(i) => http[i].status \in 400..499

(***************************************************************************)
(* C5: every 200 response has a non-empty trace_id, no two 200 responses   *)
(* share one, and each call that reached the provider had its own          *)
(* identifier generated beforehand.                                        *)
(***************************************************************************)
C5_TraceIdsUnique ==
    /\ \A i \in Requests : http[i].status = 200 => http[i].trace_id # ""
    /\ \A i, j \in Requests :
          i # j /\ http[i].status = 200 /\ http[j].status = 200 =>
              http[i].trace_id # http[j].trace_id
    /\ \A i \in Requests : providerCalls[i].called => frame[i].trace_id # ""
    /\ \A i, j \in Requests :
          i # j /\ providerCalls[i].called /\ providerCalls[j].called =>
              frame[i].trace_id # frame[j].trace_id

C5_Witness ==
    \E i, j \in Requests :
        /\ i # j
        /\ body[i] = body[j] /\ providerReply[i] = providerReply[j]
        /\ http[i].status = 200 /\ http[j].status = 200

(***************************************************************************)
(* C6: a 200 response has role "assistant" and the text of the first       *)
(* completion of that request's provider response as content; [user: Hi]   *)
(* answered "Hello!" by the provider yields {assistant, "Hello!"}.         *)
(***************************************************************************)
C6_ReplyIsFirstCompletion ==
    \A i \in Requests :
        /\ http[i].status = 200 =>
              /\ http[i].message.role = "assistant"
              /\ ProviderSucceeded(i)
              /\ http[i].message.content = providerReply[i].choices[1].val
        /\ ( /\ Done(i) /\ body[i].messages = [present |-> TRUE, items |-> Hi]
             /\ providerReply[i].choices = <<Str("Hello!")>> )
           => http[i].message = [role |-> "assistant", content |-> "Hello!"]

C6_Witness ==
    \E i \in Requests :
        /\ http[i].status = 200
        /\ Len(providerReply[i].choices) = 2
        /\ http[i].message.content = "Bye"

(***************************************************************************)
(* C7: within one request the steps are validate, provider call, trace,    *)
(* respond, in that order; the recorder runs at most once, only after the  *)
(* provider call returned, before the response, and never after a failed   *)
(* provider call.                                                          *)
(***************************************************************************)
C7_StepOrder ==
    \A i \in Requests :
        LET s == log[i]
        IN  /\ Count(s, "trace") <= 1
            /\ Count(s, "provider_call") <= 1
            /\ Count(s, "respond") <= 1
            /\ Len(s) > 0 => s[1] = "validate"
            /\ Precedes(s, "validate", "provider_call")
            /\ Precedes(s, "provider_call", "provider_return")
            /\ Precedes(s, "provider_call", "provider_raise")
            /\ Precedes(s, "provider_return", "trace")
            /\ Has(s, "respond") => s[Len(s)] = "respond"
            /\ Done(i) <=> Has(s, "respond")
            /\ Has(s, "provider_raise") => ~Has(s, "trace")
            /\ Done(i) /\ ProviderFailed(i) => ~Has(s, "trace")
            /\ ~providerCalls[i].called => ~Has(s, "trace")

C7_Witness ==
    \E i \in Requests :
        log[i] = <<"validate", "provider_call", "provider_return", "trace",
                   "respond">>

(***************************************************************************)
(* C8: the messages the provider receives, and the messages serialized     *)
(* into a forwarded trace record, are exactly the messages of the request  *)
(* body, in the same order.                                                *)
(***************************************************************************)
C8_ConversationPreserved ==
    \A i \in Requests :
        providerCalls[i].called =>
            /\ providerCalls[i].messages = BodyMessages(i)
            /\ \A sp \in SpansOf(i) :
                  json_loads(sp.inputs.prompt) = BodyMessages(i)

C8_Witness ==
    \E i \in Requests :
        /\ Len(body[i].messages.items) = 3
        /\ providerCalls[i].called
        /\ SpansOf(i) # {}

(***************************************************************************)
(* C9: with requests in flight concurrently and resumed in any order, each *)
(* 200 response carries the reply of that request's own provider call and  *)
(* the trace_id generated for that request, and every forwarded trace      *)
(* record belongs to one request and carries that request's conversation,  *)
(* model and reply.                                                        *)
(***************************************************************************)
C9_RequestsIsolated ==
    /\ \A i \in Requests :
          http[i].status = 200 =>
              /\ http[i].message.content = providerReply[i].choices[1].val
              /\ http[i].trace_id = frame[i].trace_id
    /\ \A sp \in traceBackend :
          \E i \in Requests :
              /\ Done(i)
              /\ sp.span_id = frame[i].trace_id
              /\ sp.inputs.prompt = json_dumps(BodyMessages(i))
              /\ sp.inputs.model = providerCalls[i].model
              /\ sp.outputs.response = providerReply[i].choices[1]
              /\ \A j \in Requests : j # i => sp.span_id # frame[j].trace_id

C9_Witness ==
    \E i, j \in Requests :
        /\ i < j
        /\ pc[i] = "awaiting"
        /\ http[j].status = 200
        /\ body[i] # body[j]
        /\ SpansOf(j) # {}

(***************************************************************************)
(* C10: a request answered 500 has had no trace record forwarded for its   *)
(* trace_id.                                                               *)
(***************************************************************************)
C10_NoTraceOn500 ==
    \A i \in Requests :
        Done(i) /\ http[i].status = 500 => SpansOf(i) = {}

====
